---- MODULE Spec2Model ----
(***************************************************************************)
(* Model of cnaturalneighbor_griddata (naturalneighbor/cnaturalneighbor.cpp) *)
(* the discrete natural-neighbour "scatter" interpolation over a 3D grid.   *)
(*                                                                         *)
(* Number representations                                                  *)
(*  - std::size_t: a 64-bit unsigned value u is represented by the integer *)
(*    congruent to it modulo 2^64 of least magnitude (u itself below 2^63, *)
(*    u - 2^64 above), i.e. by the two's-complement reading of its bits.   *)
(*    Addition, subtraction and multiplication modulo 2^64 are then the    *)
(*    integer operations (all magnitudes here are tiny), and only the      *)
(*    comparison has to be the unsigned one (SizeLess).                    *)
(*  - double (accumulator cells, known values): a binary floating-point    *)
(*    number <<m, e>> = m * 2^e with m odd (or <<0, 0>>), rounded to       *)
(*    nearest, ties to even, after every operation. The significand has    *)
(*    MantissaBits bits instead of 53.                                     *)
(*  - double (coordinates, squared distances, counters): integers far      *)
(*    below 2^53, on which double arithmetic is exact; kept as integers.   *)
(***************************************************************************)
EXTENDS Integers, Sequences, FiniteSets, TLC

\* ------------------------------------------------------------------ bounds
MaxNi == 3
MaxNj == 2
MaxNk == 2
MaxKnown == 2
MantissaBits == 3

\* ------------------------------------------------- floating-point numbers
RECURSIVE BitLen(_)
BitLen(n) == IF n = 0 THEN 0 ELSE 1 + BitLen(n \div 2)

RECURSIVE Canon(_, _)
Canon(m, e) ==
    IF m = 0 THEN <<0, 0>>
    ELSE IF m % 2 = 0 THEN Canon(m \div 2, e + 1) ELSE <<m, e>>

Zero == <<0, 0>>

\* The float nearest to M * 2^e (plus a nonzero amount below one unit of M
\* when sticky), ties to even.
RoundTo(M, e, sticky) ==
    LET k == BitLen(M) - MantissaBits IN
    IF k <= 0 THEN Canon(M, e)
    ELSE LET q == M \div (2 ^ k)
             r == M % (2 ^ k)
             half == 2 ^ (k - 1)
             up == \/ r > half
                   \/ r = half /\ (sticky \/ q % 2 = 1)
         IN Canon(IF up THEN q + 1 ELSE q, e + k)

\* x + y on doubles (operator += of line 131).
FAdd(x, y) ==
    LET e == IF x[2] < y[2] THEN x[2] ELSE y[2]
        M == x[1] * (2 ^ (x[2] - e)) + y[1] * (2 ^ (y[2] - e))
    IN RoundTo(M, e, FALSE)

RECURSIVE ShiftFor(_, _, _)
ShiftFor(m, n, s) ==
    IF m * (2 ^ s) >= n * (2 ^ MantissaBits) THEN s ELSE ShiftFor(m, n, s + 1)

\* x / n on doubles, n a positive integer-valued double (operator /= of
\* line 146).
FDiv(x, n) ==
    IF x[1] = 0 THEN Zero
    ELSE LET s == ShiftFor(x[1], n, 0)
             Q == (x[1] * (2 ^ s)) \div n
             rem == (x[1] * (2 ^ s)) % n
         IN RoundTo(Q, x[2] - s, rem # 0)

\* ------------------------------------------------------ std::size_t values
\* Unsigned "<" on the two's-complement representatives.
SizeLess(a, b) == IF (a < 0) = (b < 0) THEN a < b ELSE b < 0

\* Lines 46-54.
clamp(val, min, max) ==
    IF SizeLess(val, min) THEN min
    ELSE IF SizeLess(max, val) THEN max
    ELSE val

\* int roi_radius = ceil(sqrt(d)) for an integer d >= 0 (line 108).
RECURSIVE CeilSqrtFrom(_, _)
CeilSqrtFrom(d, r) == IF r * r >= d THEN r ELSE CeilSqrtFrom(d, r + 1)
CeilSqrt(d) == CeilSqrtFrom(d, 0)


\* ------------------------------------------------------------- geometry
\* Squared Euclidean distance of two points (geometry.h).
Dist2(p, q) ==
    (p[1] - q[1]) * (p[1] - q[1]) + (p[2] - q[2]) * (p[2] - q[2])
        + (p[3] - q[3]) * (p[3] - q[3])

\* Result of a nearest-neighbour query on an index without points.
NoData == [missing |-> TRUE]

\* kdtree::nearest_iterative (kdtree.h): the stored point of least squared
\* distance to q, with its value; of equidistant points the first added.
nearest_iterative(nodes, q) ==
    IF Len(nodes) = 0 THEN NoData
    ELSE LET best == CHOOSE n \in 1..Len(nodes) :
                        \A m \in 1..Len(nodes) :
                            \/ Dist2(nodes[n].point, q) < Dist2(nodes[m].point, q)
                            \/ /\ Dist2(nodes[n].point, q) = Dist2(nodes[m].point, q)
                               /\ n <= m
         IN [missing |-> FALSE,
             distance |-> Dist2(nodes[best].point, q),
             value |-> nodes[best].value]

\* ------------------------------------------------------------ grid layout
NumCells(shape) == shape[1] * shape[2] * shape[3]

\* indice = nj*nk*i + nk*j + k (lines 130 and 144).
FlatIndex(shape, p) == shape[2] * shape[3] * p[1] + shape[3] * p[2] + p[3]

\* The loop variables (i, j, k) after one more turn of the innermost loop of
\* the three nested loops of lines 101-103 (and 141-143); i = ni when done.
NextCell(shape, p) ==
    IF p[3] + 1 < shape[3] THEN <<p[1], p[2], p[3] + 1>>
    ELSE IF p[2] + 1 < shape[2] THEN <<p[1], p[2] + 1, 0>>
    ELSE <<p[1] + 1, 0, 0>>

LoopsDone(shape, p) == ~ (p[1] < shape[1])

Cells(shape) ==
    {<<a, b, c>> : a \in 0..(shape[1] - 1), b \in 0..(shape[2] - 1),
                   c \in 0..(shape[3] - 1)}

\* Lines 114-119: i, j, k, ni, nj, nk are std::size_t and roi_radius an int
\* converted to std::size_t, so every sum and difference is taken modulo 2^64.
RoiBounds(shape, p, r) ==
    [i_roi_min |-> clamp(p[1] - r, 0, shape[1] - 1),
     i_roi_max |-> clamp(p[1] + r, 0, shape[1] - 1),
     j_roi_min |-> clamp(p[2] - r, 0, shape[2] - 1),
     j_roi_max |-> clamp(p[2] + r, 0, shape[2] - 1),
     k_roi_min |-> clamp(p[3] - r, 0, shape[3] - 1),
     k_roi_max |-> clamp(p[3] + r, 0, shape[3] - 1)]

\* The cells visited by the three loops of lines 121-123.
RoiBox(b) ==
    {<<a, c, d>> : a \in b.i_roi_min..b.i_roi_max,
                   c \in b.j_roi_min..b.j_roi_max,
                   d \in b.k_roi_min..b.k_roi_max}

\* Lines 124-127: the differences are std::size_t, their squares are taken
\* modulo 2^64 and then converted to double.
DistSqToRoiPoint(p, c) ==
    (p[1] - c[1]) * (p[1] - c[1]) + (p[2] - c[2]) * (p[2] - c[2])
        + (p[3] - c[3]) * (p[3] - c[3])

\* The candidates that pass the test of line 129.
Passing(p, b, distance) ==
    {c \in RoiBox(b) : DistSqToRoiPoint(p, c) <= distance}

WriteIndexOfCandidate(shape, p, c) == FlatIndex(shape, c)

\* Line 130: the index written while source cell p handles candidate c.
WriteIndex(shape, p, c) == FlatIndex(shape, p)

\* How many of the passing candidates of source p write each index.
WritesAt(shape, p, pass) ==
    LET target == [c \in pass |-> WriteIndex(shape, p, c)] IN
    [x \in 0..(NumCells(shape) - 1) |->
        Cardinality({c \in pass : target[c] = x})]

\* v after n executions of "v += value" (line 131).
RECURSIVE AddTimes(_, _, _)
AddTimes(v, value, n) ==
    IF n = 0 THEN v ELSE AddTimes(FAdd(v, value), value, n - 1)

RECURSIVE Copies(_, _)
Copies(value, n) == IF n = 0 THEN <<>> ELSE <<value>> \o Copies(value, n - 1)

\* The test of line 145 on a counter c.
Divides(c) == c # 0

NormalizedValueOrReset(v, c) == IF Divides(c) THEN FDiv(v, c) ELSE Zero

\* Lines 145-147 for one cell holding v with counter c.
NormalizedValue(v, c) == IF Divides(c) THEN FDiv(v, c) ELSE v

\* ------------------------------------------------------------------ state
VARIABLES
    pc,                     \* position in cnaturalneighbor_griddata
    args_ok,                \* whether the four arguments are arrays
    known_coords,           \* argument 1: sequence of points
    known_values,           \* argument 2: sequence of doubles
    interp_shape,           \* shape of argument 3, <<ni, nj, nk>>
    counter_shape,          \* shape of argument 4
    interp_values,          \* argument 3 as a flat buffer
    contribution_counter,   \* argument 4 as a flat buffer
    known_coords_vec,       \* the intermediate vectors of lines 77-78
    known_values_vec,
    tree,                   \* the index: its points, and whether it is built
    cur,                    \* the loop variables <<i, j, k>>
    roi,                    \* the locals of the last scatter loop body
    stale,                  \* what memory outside the arrays holds
    seed_values,            \* history: argument 3 as the caller passed it
    seed_counter,           \* history: argument 4 as the caller passed it
    received,               \* history: the values added to each cell
    num_queries,            \* history: nearest-neighbour queries made
    divided,                \* history: divisions made on each cell
    counter_at_normalize,   \* history: the counter when normalisation began
    deref_missing,          \* history: a missing query result was read
    run2_values,            \* the same call on a zeroed counter: argument 3
    run2_counter            \* the same call on a zeroed counter: argument 4

vars ==
    <<pc, args_ok, known_coords, known_values, interp_shape, counter_shape,
      interp_values, contribution_counter, known_coords_vec, known_values_vec,
      tree, cur, roi, stale, seed_values, seed_counter, received, num_queries,
      divided, counter_at_normalize, deref_missing, run2_values, run2_counter>>

inputs ==
    <<args_ok, known_coords, known_values, interp_shape, counter_shape, stale,
      seed_values, seed_counter>>

\* ----------------------------------------------------------------- inputs
Shapes == {<<a, b, c>> : a \in 1..MaxNi, b \in 1..MaxNj, c \in 1..MaxNk}

\* Known points with the values 3.0 and 4.0.
KnownPairs ==
    <<[point |-> <<1, 0, 0>>, value |-> <<3, 0>>],
      [point |-> <<2, 0, 0>>, value |-> <<3, 0>>],
      [point |-> <<2, 0, 0>>, value |-> <<1, 2>>],
      [point |-> <<0, 1, 1>>, value |-> <<1, 2>>]>>

\* The known-point sets of at most MaxKnown points, each in one order.
KnownChoices ==
    UNION {{s \in [1..n -> 1..Len(KnownPairs)] :
                \A a, b \in 1..n : a < b => s[a] < s[b]} : n \in 0..MaxKnown}

CoordsOf(s) == [a \in 1..Len(s) |-> KnownPairs[s[a]].point]
ValuesOf(s) == [a \in 1..Len(s) |-> KnownPairs[s[a]].value]

ZeroValues(shape) == [x \in 0..(NumCells(shape) - 1) |-> Zero]
ZeroCounter(shape) == [x \in 0..(NumCells(shape) - 1) |-> 0]
\* A caller's fill of 1.0 and 2.0, and a counter left over from earlier use.
FilledValues(shape) ==
    [x \in 0..(NumCells(shape) - 1) |-> IF x % 2 = 0 THEN <<1, 0>> ELSE <<1, 1>>]
FilledCounter(shape) == [x \in 0..(NumCells(shape) - 1) |-> 1 + (x % 2)]

QuietStale == [distance |-> 0, value |-> <<1, 0>>, count |-> 0]
StaleSet == {QuietStale, [distance |-> 1, value |-> <<5, 0>>, count |-> 1]}

\* The argument lists of the modelled calls: the arrays of a well-formed
\* call with zeroed or filled buffers; known_values one shorter or one longer
\* than known_coords; a counter of another shape; arguments that are no arrays.
WellFormed(shape, s) ==
    /\ args_ok = TRUE
    /\ known_coords = CoordsOf(s)
    /\ known_values = ValuesOf(s)
    /\ interp_shape = shape
    /\ counter_shape = shape
    /\ seed_values \in {ZeroValues(shape), FilledValues(shape)}
    /\ seed_counter \in {ZeroCounter(shape), FilledCounter(shape)}
    /\ stale \in (IF Len(s) = 0 THEN StaleSet ELSE {QuietStale})

LengthMismatch(shape, s) ==
    /\ args_ok = TRUE
    /\ known_coords = CoordsOf(s)
    /\ \/ /\ Len(s) > 0
          /\ known_values = SubSeq(ValuesOf(s), 1, Len(s) - 1)
          /\ stale \in StaleSet
       \/ /\ known_values = Append(ValuesOf(s), <<3, 0>>)
          /\ stale = QuietStale
    /\ interp_shape = shape
    /\ counter_shape = shape
    /\ seed_values = ZeroValues(shape)
    /\ seed_counter = ZeroCounter(shape)

ShapeMismatch(shape, s) ==
    /\ args_ok = TRUE
    /\ Len(s) > 0
    /\ known_coords = CoordsOf(s)
    /\ known_values = ValuesOf(s)
    /\ interp_shape = shape
    /\ counter_shape \in {<<1, 1, 1>>, <<shape[3], shape[2], shape[1]>>} \ {shape}
    /\ seed_values = ZeroValues(shape)
    /\ seed_counter = ZeroCounter(counter_shape)
    /\ stale \in (IF NumCells(counter_shape) < NumCells(shape)
                  THEN StaleSet ELSE {QuietStale})

NotArrays ==
    /\ args_ok = FALSE
    /\ known_coords = <<>>
    /\ known_values = <<>>
    /\ interp_shape = <<1, 1, 1>>
    /\ counter_shape = <<1, 1, 1>>
    /\ seed_values = ZeroValues(interp_shape)
    /\ seed_counter = ZeroCounter(counter_shape)
    /\ stale = QuietStale

NoRoi == [set |-> FALSE]

Init ==
    /\ \/ \E shape \in Shapes, s \in KnownChoices :
            \/ WellFormed(shape, s)
            \/ LengthMismatch(shape, s)
            \/ ShapeMismatch(shape, s)
       \/ NotArrays
    /\ pc = "entry"
    /\ interp_values = seed_values
    /\ contribution_counter = seed_counter
    /\ known_coords_vec = <<>>
    /\ known_values_vec = <<>>
    /\ tree = [nodes |-> <<>>, built |-> FALSE]
    /\ cur = <<0, 0, 0>>
    /\ roi = NoRoi
    /\ received = [x \in DOMAIN seed_values |-> <<>>]
    /\ num_queries = 0
    /\ divided = [x \in DOMAIN seed_values |-> 0]
    /\ counter_at_normalize = <<>>
    /\ deref_missing = FALSE
    /\ run2_values = seed_values
    /\ run2_counter = [x \in DOMAIN seed_counter |-> 0]

\* ---------------------------------------------------------------- actions
ni == interp_shape[1]
nj == interp_shape[2]
nk == interp_shape[3]

\* Lines 61-67: PyArg_ParseTuple accepts four arrays, whatever their shapes,
\* and makes the call fail on anything else.
ParseArgs ==
    /\ pc = "entry"
    /\ pc' = IF args_ok THEN "load" ELSE "error"
    /\ UNCHANGED <<inputs, interp_values, contribution_counter,
                   known_coords_vec, known_values_vec, tree, cur, roi,
                   received, num_queries, divided, counter_at_normalize,
                   deref_missing, run2_values, run2_counter>>

\* Lines 74-87: num_known_points is the length of known_coords, and
\* known_values is read at every i below it; past its end the read returns
\* what the memory holds.
LoadKnown ==
    /\ pc = "load"
    /\ known_coords_vec' = known_coords
    /\ known_values_vec' =
          [a \in 1..Len(known_coords) |->
              IF a <= Len(known_values) THEN known_values[a] ELSE stale.value]
    /\ pc' = "build"
    /\ UNCHANGED <<inputs, interp_values, contribution_counter, tree, cur, roi,
                   received, num_queries, divided, counter_at_normalize,
                   deref_missing, run2_values, run2_counter>>

\* ... or the read past the end of known_values faults.
LoadFault ==
    /\ pc = "load"
    /\ Len(known_values) < Len(known_coords)
    /\ pc' = "crashed"
    /\ UNCHANGED <<inputs, interp_values, contribution_counter,
                   known_coords_vec, known_values_vec, tree, cur, roi,
                   received, num_queries, divided, counter_at_normalize,
                   deref_missing, run2_values, run2_counter>>

\* Lines 89-100: every known point is added, then the index is built once.
BuildTree ==
    /\ pc = "build"
    /\ tree' = [nodes |-> [a \in 1..Len(known_coords_vec) |->
                              [point |-> known_coords_vec[a],
                               value |-> known_values_vec[a]]],
                built |-> TRUE]
    /\ cur' = <<0, 0, 0>>
    /\ pc' = "scatter"
    /\ UNCHANGED <<inputs, interp_values, contribution_counter,
                   known_coords_vec, known_values_vec, roi, received,
                   num_queries, divided, counter_at_normalize, deref_missing,
                   run2_values, run2_counter>>

\* What line 105-107 read through the pointer the query returned: the
\* result's fields, or with no result what the memory holds.
QueryResult(nodes, q) ==
    LET res == nearest_iterative(nodes, q) IN
    IF res.missing THEN [distance |-> stale.distance, value |-> stale.value]
    ELSE [distance |-> res.distance, value |-> res.value]

\* The locals of the loop body of lines 104-119 for source cell p.
RoiOf(nodes, p) ==
    LET res == QueryResult(nodes, p)
        r == CeilSqrt(res.distance)
    IN [set |-> TRUE, src |-> p, distance |-> res.distance,
        value |-> res.value, roi_radius |-> r,
        bounds |-> RoiBounds(interp_shape, p, r)]

\* The two buffers after the loops of lines 121-136 for the source cell of
\* loc (lines 131 and 132); a write past the end of a buffer does not reach it.
AccumulateValues(buf, value, writes) ==
    [x \in DOMAIN buf |->
        IF x \in DOMAIN writes THEN AddTimes(buf[x], value, writes[x])
        ELSE buf[x]]

AccumulateCounterOncePerCell(buf, writes) ==
    [x \in DOMAIN buf |->
        IF x \in DOMAIN writes /\ writes[x] > 0 THEN buf[x] + 1 ELSE buf[x]]

AccumulateCounter(buf, writes) ==
    [x \in DOMAIN buf |->
        IF x \in DOMAIN writes THEN buf[x] + writes[x] ELSE buf[x]]

PhaseAfterFirstScatter(next) == "normalize"

\* After the last turn of the loops of lines 101-103 comes line 141.
PhaseAfterScatter(next) ==
    IF LoopsDone(interp_shape, next) THEN "normalize" ELSE "scatter"

\* Lines 104-136 for one source cell (i, j, k): the query, the radius, the
\* region of interest, and the accumulation over its candidates.
ScatterCell ==
    /\ pc = "scatter"
    /\ LET loc == RoiOf(tree.nodes, cur)
           writes == WritesAt(interp_shape, cur,
                              Passing(cur, loc.bounds, loc.distance))
           next == NextCell(interp_shape, cur)
       IN /\ roi' = loc
          /\ num_queries' = num_queries + 1
          /\ deref_missing' =
                (deref_missing \/ nearest_iterative(tree.nodes, cur).missing)
          /\ interp_values' = AccumulateValues(interp_values, loc.value, writes)
          /\ contribution_counter' = AccumulateCounter(contribution_counter, writes)
          /\ run2_values' = AccumulateValues(run2_values, loc.value, writes)
          /\ run2_counter' = AccumulateCounter(run2_counter, writes)
          /\ received' =
                [x \in DOMAIN received |->
                    received[x] \o Copies(loc.value, writes[x])]
          /\ pc' = PhaseAfterScatter(next)
          /\ cur' = IF LoopsDone(interp_shape, next) THEN <<0, 0, 0>> ELSE next
          /\ counter_at_normalize' =
                IF LoopsDone(interp_shape, next) THEN contribution_counter'
                ELSE counter_at_normalize
    /\ UNCHANGED <<inputs, known_coords_vec, known_values_vec, tree, divided>>

\* ... or it faults: reading the result of a query that found nothing, or
\* writing the counter past its end.
ScatterFault ==
    /\ pc = "scatter"
    /\ \/ nearest_iterative(tree.nodes, cur).missing
       \/ LET loc == RoiOf(tree.nodes, cur) IN
          /\ Passing(cur, loc.bounds, loc.distance) # {}
          /\ FlatIndex(interp_shape, cur) >= NumCells(counter_shape)
    /\ pc' = "crashed"
    /\ UNCHANGED <<inputs, interp_values, contribution_counter,
                   known_coords_vec, known_values_vec, tree, cur, roi,
                   received, num_queries, divided, counter_at_normalize,
                   deref_missing, run2_values, run2_counter>>

\* The counter of cell x as line 145 reads it.
CounterRead(counter, x) ==
    IF x \in DOMAIN counter THEN counter[x] ELSE stale.count

\* Lines 144-147 for one cell (i, j, k).
NormalizeCell ==
    /\ pc = "normalize"
    /\ LET indice == FlatIndex(interp_shape, cur)
           next == NextCell(interp_shape, cur)
       IN /\ interp_values' =
                [interp_values EXCEPT
                    ![indice] = NormalizedValue(@, CounterRead(contribution_counter, indice))]
          /\ run2_values' =
                [run2_values EXCEPT
                    ![indice] = NormalizedValue(@, CounterRead(run2_counter, indice))]
          /\ divided' =
                [divided EXCEPT
                    ![indice] = IF Divides(CounterRead(contribution_counter, indice))
                                THEN @ + 1 ELSE @]
          /\ cur' = next
          /\ pc' = IF LoopsDone(interp_shape, next) THEN "return" ELSE "normalize"
    /\ UNCHANGED <<inputs, contribution_counter, known_coords_vec,
                   known_values_vec, tree, roi, received, num_queries,
                   counter_at_normalize, deref_missing, run2_counter>>

\* ... or reading the counter past its end faults.
NormalizeFault ==
    /\ pc = "normalize"
    /\ FlatIndex(interp_shape, cur) >= NumCells(counter_shape)
    /\ pc' = "crashed"
    /\ UNCHANGED <<inputs, interp_values, contribution_counter,
                   known_coords_vec, known_values_vec, tree, cur, roi,
                   received, num_queries, divided, counter_at_normalize,
                   deref_missing, run2_values, run2_counter>>

\* Lines 152-156.
Return ==
    /\ pc = "return"
    /\ tree' = [nodes |-> <<>>, built |-> FALSE]
    /\ known_coords_vec' = <<>>
    /\ known_values_vec' = <<>>
    /\ pc' = "done"
    /\ UNCHANGED <<inputs, interp_values, contribution_counter, cur, roi,
                   received, num_queries, divided, counter_at_normalize,
                   deref_missing, run2_values, run2_counter>>

Next ==
    \/ ParseArgs
    \/ LoadKnown
    \/ LoadFault
    \/ BuildTree
    \/ ScatterCell
    \/ ScatterFault
    \/ NormalizeCell
    \/ NormalizeFault
    \/ Return

Spec == Init /\ [][Next]_vars

\* ----------------------------------------------------------------- claims
Max(a, b) == IF a > b THEN a ELSE b
Min(a, b) == IF a < b THEN a ELSE b

LengthsMatch == Len(known_coords) = Len(known_values)
ShapesMatch == counter_shape = interp_shape
ZeroCounterSeed == seed_counter = ZeroCounter(counter_shape)
ZeroSeeds == seed_values = ZeroValues(interp_shape) /\ ZeroCounterSeed
Returned == pc = "done"

\* The known points as the caller passed them.
KnownNodes ==
    [a \in 1..Len(known_coords) |->
        [point |-> known_coords[a], value |-> known_values[a]]]

\* The running sum, in double arithmetic and from 0.0, of a sequence of values.
RECURSIVE SumOf(_)
SumOf(vs) ==
    IF Len(vs) = 0 THEN Zero
    ELSE FAdd(SumOf(SubSeq(vs, 1, Len(vs) - 1)), vs[Len(vs)])

\* C1: in a well-formed call with a known point, a scatter step for source
\* cell (i,j,k) adds the value V of its nearest known point to the
\* accumulator entry of every candidate cell of its region of interest whose
\* squared distance to (i,j,k) is at most D2, and increments the counter entry
\* of that candidate cell by one.
C1_ScatterWritesCandidate ==
    [][(pc = "scatter" /\ pc' \in {"scatter", "normalize"}
            /\ LengthsMatch /\ ShapesMatch /\ Len(known_coords) > 0) =>
          \A c \in Passing(roi'.src, roi'.bounds, roi'.distance) :
              LET x == FlatIndex(interp_shape, c) IN
              /\ interp_values'[x] = FAdd(interp_values[x], roi'.value)
              /\ x \in DOMAIN contribution_counter =>
                    contribution_counter'[x] = contribution_counter[x] + 1]_vars

\* C2: in a well-formed call with a known point, the loop bounds of the region
\* of interest of source index c on an axis of size n with radius r are
\* max(0, c - r) and min(n - 1, c + r).
C2_RoiBoundsSaturate ==
    (roi.set /\ LengthsMatch /\ ShapesMatch /\ Len(known_coords) > 0) =>
        /\ roi.bounds.i_roi_min = Max(0, roi.src[1] - roi.roi_radius)
        /\ roi.bounds.i_roi_max = Min(ni - 1, roi.src[1] + roi.roi_radius)
        /\ roi.bounds.j_roi_min = Max(0, roi.src[2] - roi.roi_radius)
        /\ roi.bounds.j_roi_max = Min(nj - 1, roi.src[2] + roi.roi_radius)
        /\ roi.bounds.k_roi_min = Max(0, roi.src[3] - roi.roi_radius)
        /\ roi.bounds.k_roi_max = Min(nk - 1, roi.src[3] + roi.roi_radius)

\* C3: with exactly one known point and a zeroed counter, every cell's counter
\* is at least 1 when the call has returned.
C3_SinglePointCoversGrid ==
    (Returned /\ LengthsMatch /\ ShapesMatch /\ ZeroCounterSeed
        /\ Len(known_coords) = 1) =>
        \A x \in DOMAIN contribution_counter : contribution_counter[x] >= 1

\* C4: a call with no known point does not fault, reads no missing query
\* result, leaves the accumulator as the caller passed it and the (zeroed)
\* counter at zero.
C4_EmptyKnownIsNoOp ==
    (args_ok /\ LengthsMatch /\ ShapesMatch /\ Len(known_coords) = 0) =>
        /\ pc # "crashed"
        /\ ~ deref_missing
        /\ interp_values = seed_values
        /\ ZeroCounterSeed => contribution_counter = seed_counter

\* C5: the final accumulator does not depend on what the counter held before
\* the call: it is what the same call leaves on a zeroed counter.
C5_CounterSeedIgnored ==
    (Returned /\ LengthsMatch /\ ShapesMatch /\ Len(known_coords) > 0) =>
        interp_values = run2_values

\* C6: a call whose known_coords and known_values differ in length, or whose
\* two buffers differ in shape, is rejected before the index is built and
\* before either buffer is written.
C6_MismatchRejected ==
    (args_ok /\ ~ (LengthsMatch /\ ShapesMatch)) =>
        /\ pc \in {"entry", "error"}
        /\ ~ tree.built
        /\ interp_values = seed_values
        /\ contribution_counter = seed_counter

C8_UntouchedKeepSeed ==
    (Returned /\ ShapesMatch /\ ZeroCounterSeed) =>
        \A x \in DOMAIN interp_values :
            contribution_counter[x] = 0 =>
                /\ interp_values[x] = seed_values[x]
                /\ received[x] = <<>>
                /\ divided[x] = 0

\* C8 witness: a well-formed call with a known point has returned, leaving the
\* counter of a cell the caller filled at zero, and that of another not.
C8_Witness ==
    /\ Returned /\ ShapesMatch /\ ZeroCounterSeed /\ LengthsMatch
    /\ Len(known_coords) > 0
    /\ \E x \in DOMAIN interp_values :
          contribution_counter[x] = 0 /\ seed_values[x] # Zero
    /\ \E x \in DOMAIN interp_values : contribution_counter[x] # 0

\* C9: no query is made before the index is built; no cell is divided before
\* the scatter step of the last cell has completed; a cell is divided at most
\* once, and exactly once if its counter was nonzero when normalisation began.
C9_PhaseOrdering ==
    /\ (num_queries > 0 /\ pc # "done") => tree.built
    /\ (\E x \in DOMAIN divided : divided[x] > 0) =>
          /\ num_queries = NumCells(interp_shape)
          /\ roi.src = <<ni - 1, nj - 1, nk - 1>>
    /\ \A x \in DOMAIN divided : divided[x] <= 1
    /\ Returned =>
          \A x \in DOMAIN divided \cap DOMAIN counter_at_normalize :
              divided[x] = IF counter_at_normalize[x] # 0 THEN 1 ELSE 0

\* C9 witness: a call on a grid of several cells has returned, one cell with
\* a counter above 1 divided once, another not divided.
C9_Witness ==
    /\ Returned
    /\ NumCells(interp_shape) > 1
    /\ ShapesMatch
    /\ \E x \in DOMAIN divided : divided[x] = 1 /\ counter_at_normalize[x] > 1
    /\ \E x \in DOMAIN divided : divided[x] = 0

====
